---- MODULE Spec2Model ----
(***************************************************************************)
(* Model of ssm/util.py: the label aligner (compute_state_overlap,         *)
(* find_permutation) and the optimizer adam_with_convergence_check.        *)
(*                                                                         *)
(* Arrays are functions over 0..n-1 (Python indexing); label sequences are *)
(* TLA+ sequences of integers.  An optional argument is a set: {} is None, *)
(* {k} is the supplied value k.                                            *)
(***************************************************************************)
EXTENDS Integers, Sequences, FiniteSets, TLC

VARIABLES
    z1, z2,         \* the two label arrays passed by the caller
    intDtype,       \* TRUE iff both arrays have dtype int
    K1arg, K2arg,   \* the K1= and K2= arguments ({} is None)
    pc,             \* position of the call, or the fault it ended in
    overlap,        \* the matrix compute_state_overlap returned
    shape,          \* overlap.shape, <<K1, K2>>
    solverCalls,    \* number of calls of linear_sum_assignment
    tmp, perm,      \* row and column indices as find_permutation holds them
    adam            \* the call of adam_with_convergence_check, a record:
                    \*   x0            the initial parameter vector, in thousandths
                    \*   callback      TRUE iff the caller passed a callback
                    \*   num_iters_arg the iteration cap the caller passes ({} is none)
                    \*   passing       how the cap is passed, "keyword" or "positional"
                    \*   pc            position of the call, or the fault it ended in
                    \*   x, m, v       parameters and moment estimates
                    \*   step_size     the step_size parameter as bound, in thousandths
                    \*   iterations    loop iterations executed
                    \*   gradCalls     indices grad was evaluated at
                    \*   callbackLog   the (x, i, g) each callback invocation received

alignerVars == <<z1, z2, intDtype, K1arg, K2arg, pc, overlap, shape, solverCalls, tmp, perm>>
vars == <<alignerVars, adam>>

\* ------------------------------------------------------------------ bounds
MaxT == 3           \* longest label array
MaxLabel == 1       \* largest label value
MaxK == 3           \* largest explicit K1= / K2= argument
MaxDim == 2         \* longest parameter vector
MaxIters == 3       \* largest iteration cap a caller asks for

\* ----------------------------------------------------------------- helpers
Range(f) == {f[i] : i \in DOMAIN f}

RECURSIVE SeqSum(_)
SeqSum(s) == IF s = <<>> THEN 0 ELSE s[1] + SeqSum(Tail(s))

\* f[0] + ... + f[n-1]
RECURSIVE ArraySum(_, _)
ArraySum(f, n) == IF n = 0 THEN 0 ELSE f[n - 1] + ArraySum(f, n - 1)

\* z.max() and z.min() of a non-empty array
ArrayMax(z) == CHOOSE hi \in Range(z) : \A e \in Range(z) : e <= hi
ArrayMin(z) == CHOOSE lo \in Range(z) : \A e \in Range(z) : lo <= e

\* np.arange(n)
Arange(n) == [i \in 0..(n - 1) |-> i]

\* ---------------------------------------------------- compute_state_overlap
\* faulty variant: the supplied bound is ignored
DefaultKIgnoringArg(z, Karg) == ArrayMax(z) + 1

\* K1 = z1.max() + 1 if K1 is None else K1
DefaultK(z, Karg) == IF Karg = {} THEN ArrayMax(z) + 1 ELSE CHOOSE k \in Karg : TRUE

\* faulty variant: | in place of &
MaskOr(a, b, k1, k2) ==
    [t \in 1..Len(a) |-> IF a[t] = k1 \/ b[t] = k2 THEN 1 ELSE 0]

\* (z1 == k1) & (z2 == k2): the elementwise boolean array, as 0/1
MaskAnd(a, b, k1, k2) ==
    [t \in 1..Len(a) |-> IF a[t] = k1 /\ b[t] = k2 THEN 1 ELSE 0]

\* the double loop filling overlap[k1, k2] = np.sum(mask)
OverlapMatrix(a, b, K1, K2) ==
    [k1 \in 0..(K1 - 1) |-> [k2 \in 0..(K2 - 1) |-> SeqSum(MaskAnd(a, b, k1, k2))]]

\* the three assertions; min() of a zero-size array raises ValueError
Precondition(a, b, isInt) ==
    IF ~isInt THEN "AssertionError34"
    ELSE IF Len(a) # Len(b) THEN "AssertionError35"
    ELSE IF Len(a) = 0 THEN "ValueError36"
    ELSE IF ~(ArrayMin(a) >= 0 /\ ArrayMin(b) >= 0) THEN "AssertionError36"
    ELSE "ok"

compute_state_overlap ==
    /\ pc = "call"
    /\ LET pre == Precondition(z1, z2, intDtype) IN
       IF pre # "ok"
       THEN /\ pc' = pre
            /\ UNCHANGED <<overlap, shape>>
       ELSE LET K1 == DefaultK(z1, K1arg)
                K2 == DefaultK(z2, K2arg)
            IN /\ overlap' = OverlapMatrix(z1, z2, K1, K2)
               /\ shape' = <<K1, K2>>
               /\ pc' = "overlap"
    /\ UNCHANGED <<z1, z2, intDtype, K1arg, K2arg, solverCalls, tmp, perm>>
    /\ UNCHANGED adam

\* ------------------------------------------------------- find_permutation
\* faulty variant: the comparison is reversed
ShapeOkReversed(K1, K2) == K1 >= K2

\* assert K1 <= K2
ShapeOk(K1, K2) == K1 <= K2

find_permutation_assert ==
    /\ pc = "overlap"
    /\ pc' = IF ShapeOk(shape[1], shape[2]) THEN "solve" ELSE "AssertionError50"
    /\ UNCHANGED <<z1, z2, intDtype, K1arg, K2arg, overlap, shape, solverCalls, tmp, perm>>
    /\ UNCHANGED adam

\* faulty variant: the matrix is passed without the negation
CostMatrixNotNegated(mat) == mat

\* the matrix handed to the solver: -overlap
CostMatrix(mat) == [k1 \in DOMAIN mat |-> [k2 \in DOMAIN mat[k1] |-> 0 - mat[k1][k2]]]

\* one-to-one assignments of the rows 0..K1-1 to columns of 0..K2-1
Assignments(nr, nc) ==
    {f \in [0..(nr - 1) -> 0..(nc - 1)] :
        \A a, b \in 0..(nr - 1) : a # b => f[a] # f[b]}

\* the total cost of an assignment of nr rows
AssignedTotal(cost, f, nr) == ArraySum([k \in 0..(nr - 1) |-> cost[k][f[k]]], nr)

\* scipy.optimize.linear_sum_assignment(cost) for a matrix with no more rows
\* than columns: every row is matched, and the column indices are those of an
\* assignment of minimum total cost.  Which one is returned among several of
\* equal cost is not specified, so every minimum is a possible result.
linear_sum_assignment(cost, nr, nc) ==
    LET all == Assignments(nr, nc)
        totals == {AssignedTotal(cost, g, nr) : g \in all}
        best == CHOOSE c \in totals : \A d \in totals : c <= d
    IN {[row_ind |-> Arange(nr), col_ind |-> f] :
            f \in {h \in all : AssignedTotal(cost, h, nr) = best}}

find_permutation_solve ==
    /\ pc = "solve"
    /\ \E r \in linear_sum_assignment(CostMatrix(overlap), shape[1], shape[2]) :
          /\ tmp' = r.row_ind
          /\ perm' = r.col_ind
          /\ solverCalls' = solverCalls + 1
          /\ pc' = IF r.row_ind = Arange(shape[1]) THEN "pad" ELSE "AssertionError53"
    /\ UNCHANGED <<z1, z2, intDtype, K1arg, K2arg, overlap, shape>>
    /\ UNCHANGED adam

\* faulty variant: the columns K1..K2-1 are appended, matched or not
UnusedTail(K2, p) == Cardinality(DOMAIN p)..(K2 - 1)

\* set(np.arange(K2)) - set(perm)
Unused(K2, p) == (0..(K2 - 1)) \ Range(p)

\* list(s): the elements of a set in some order
Orderings(S) ==
    {f \in [0..(Cardinality(S) - 1) -> S] : Range(f) = S}

\* faulty variant: the unused columns are put first
ConcatenateSwapped(a, b, na, nb) ==
    [i \in 0..(na + nb - 1) |-> IF i < nb THEN b[i] ELSE a[i - nb]]

\* np.concatenate((a, b))
Concatenate(a, b, na, nb) ==
    [i \in 0..(na + nb - 1) |-> IF i < na THEN a[i] ELSE b[i - na]]

find_permutation_pad ==
    /\ pc = "pad"
    /\ IF shape[1] < shape[2]
       THEN \E unused \in Orderings(Unused(shape[2], perm)) :
               perm' = Concatenate(perm, unused, shape[1], Cardinality(Unused(shape[2], perm)))
       ELSE perm' = perm
    /\ pc' = "done"
    /\ UNCHANGED <<z1, z2, intDtype, K1arg, K2arg, overlap, shape, solverCalls, tmp>>
    /\ UNCHANGED adam

\* ------------------------------------------------------------ the callers
Labels == 0..MaxLabel
LabelArrays == UNION {[1..T -> Labels] : T \in 0..MaxT}
\* arrays of at most one entry that may hold a negative label
ShortArrays == UNION {[1..T -> (0 - 1)..MaxLabel] : T \in 0..1}
KArgs == {{}} \cup {{k} : k \in 1..MaxK}

NonDecreasing(a) == \A t \in 1..(Len(a) - 1) : a[t] <= a[t + 1]

\* what a caller may pass: equal-length int arrays of labels, and short arrays
\* of any shape, sign and dtype, which the assertions of lines 34-36 reject.
\* The arrays are read only through the elementwise comparisons of line 44
\* and np.sum over the positions, so reordering the positions of both arrays
\* alike changes no result: of the arrays that differ by such a reordering
\* the one whose z1 is non-decreasing is taken.
Inputs ==
    {[a |-> p[1], b |-> p[2], isInt |-> TRUE] :
        p \in {q \in LabelArrays \X LabelArrays :
                    Len(q[1]) = Len(q[2]) /\ NonDecreasing(q[1])}}
    \cup {[a |-> p[1], b |-> p[2], isInt |-> d] :
        p \in ShortArrays \X ShortArrays, d \in BOOLEAN}

AlignerInit ==
    /\ \E inp \in Inputs :
          /\ z1 = inp.a
          /\ z2 = inp.b
          /\ intDtype = inp.isInt
    /\ K1arg \in KArgs
    /\ K2arg \in KArgs
    /\ pc = "call"
    /\ overlap = <<>>
    /\ shape = <<0, 0>>
    /\ solverCalls = 0
    /\ tmp = <<>>
    /\ perm = <<>>

\* no call of the aligner
AlignerIdle ==
    /\ z1 = <<>> /\ z2 = <<>> /\ intDtype = TRUE
    /\ K1arg = {} /\ K2arg = {}
    /\ pc = "idle"
    /\ overlap = <<>> /\ shape = <<0, 0>>
    /\ solverCalls = 0 /\ tmp = <<>> /\ perm = <<>>

\* no call of the optimizer
AdamIdle ==
    adam = [x0 |-> <<>>, callback |-> FALSE, num_iters_arg |-> {}, passing |-> "keyword",
            pc |-> "idle", x |-> <<>>, m |-> <<>>, v |-> <<>>, step_size |-> 0,
            iterations |-> 0, gradCalls |-> <<>>, callbackLog |-> <<>>]

Init == AlignerInit /\ AdamIdle

Next ==
    \/ compute_state_overlap
    \/ find_permutation_assert
    \/ find_permutation_solve
    \/ find_permutation_pad

Spec == Init /\ [][Next]_vars

\* ---------------------------------------------- adam_with_convergence_check
\* reals are held in thousandths
Unit == 10 * 10 * 10
\* step_size=0.001
StepSizeDefault == 1
\* tol=1e-2
TolDefault == 10

\* the parameters of the def, in positional order
Parameters == <<"grad", "x", "callback", "step_size", "b1", "b2", "eps", "tol">>

\* the names the body assigns, local by Python's scoping
Assigned == {"m", "v", "i", "g", "mhat", "vhat", "dx", "x"}

\* the names the module binds: its imports and its defs
ModuleNames ==
    {"np", "npr", "unflatten_optimizer", "linear_sum_assignment",
     "adam_with_convergence_check", "compute_state_overlap", "find_permutation",
     "random_rotation", "ensure_args_are_lists", "ensure_elbo_args_are_lists",
     "ensure_args_not_none", "ensure_slds_args_not_none",
     "logistic", "logit", "softplus", "inv_softplus"}

\* the builtins the body uses
Builtins == {"len", "range", "abs"}

\* name lookup in the body: locals, then module globals, then builtins
Resolves(name) == name \in Range(Parameters) \cup Assigned \cup ModuleNames \cup Builtins

\* np.zeros(n)
Zeros(n) == [k \in 1..n |-> 0]

\* binding of the call's arguments to the parameters: a keyword that is no
\* parameter is a TypeError; a fourth positional argument is step_size
adam_call ==
    /\ adam.pc = "call"
    /\ IF adam.num_iters_arg # {} /\ adam.passing = "keyword"
            /\ "num_iters" \notin Range(Parameters)
       THEN adam' = [adam EXCEPT !.pc = "TypeError"]
       ELSE adam' = [adam EXCEPT
                !.x = adam.x0,
                !.step_size = IF adam.num_iters_arg # {} /\ adam.passing = "positional"
                                    /\ Parameters[4] = "step_size"
                              THEN Unit * (CHOOSE n \in adam.num_iters_arg : TRUE)
                              ELSE StepSizeDefault,
                !.pc = "zeros"]
    /\ UNCHANGED alignerVars

\* m = np.zeros(len(x)); v = np.zeros(len(x))
adam_zeros ==
    /\ adam.pc = "zeros"
    /\ adam' = [adam EXCEPT !.m = Zeros(Len(adam.x)), !.v = Zeros(Len(adam.x)),
                            !.pc = "for"]
    /\ UNCHANGED alignerVars

\* for i in range(num_iters): the name is looked up when the header runs.
\* It is no parameter, no local and no module name, so the lookup raises
\* NameError; the body and the return after the loop need it and never run.
adam_for ==
    /\ adam.pc = "for"
    /\ ~Resolves("num_iters")
    /\ adam' = [adam EXCEPT !.pc = "NameError"]
    /\ UNCHANGED alignerVars

X0Values == {0 - Unit, 0, Unit}
ParameterVectors == UNION {[1..n -> X0Values] : n \in 1..MaxDim}

\* the calls a caller may make: any start vector, with or without a callback,
\* the cap omitted, passed by keyword or passed as fourth positional argument
AdamCalls ==
    {[x0 |-> p, callback |-> c, num_iters_arg |-> n, passing |-> how,
      pc |-> "call", x |-> <<>>, m |-> <<>>, v |-> <<>>, step_size |-> 0,
      iterations |-> 0, gradCalls |-> <<>>, callbackLog |-> <<>>] :
        p \in ParameterVectors, c \in BOOLEAN,
        n \in {{}} \cup {{k} : k \in 1..MaxIters},
        how \in {"keyword", "positional"}}

AdamInit ==
    /\ adam \in AdamCalls
    /\ adam.num_iters_arg = {} => adam.passing = "keyword"

InitAdam == AdamInit /\ AlignerIdle

NextAdam == adam_call \/ adam_zeros \/ adam_for

SpecAdam == InitAdam /\ [][NextAdam]_vars

\* ------------------------------------------------------------ properties
K1 == shape[1]
K2 == shape[2]
T == Len(z1)

\* compute_state_overlap has returned its matrix
OverlapReturned == pc \in {"overlap", "solve", "pad", "done", "AssertionError50"}

MatrixSum(mat) == ArraySum([k1 \in 0..(K1 - 1) |-> ArraySum(mat[k1], K2)], K1)

InRange(z, K) == \A t \in 1..Len(z) : 0 <= z[t] /\ z[t] < K

KValue(Karg) == CHOOSE k \in Karg : TRUE

\* C3: for equal-length label arrays whose values lie in [0, K1) and [0, K2)
\* (K1, K2 defaulted or supplied), the entries of the returned matrix sum to T
\* and entry [k1][k2] is the number of positions t with z1[t] = k1, z2[t] = k2.
C3_OverlapCountsAndSum ==
    (OverlapReturned /\ InRange(z1, K1) /\ InRange(z2, K2)) =>
        /\ MatrixSum(overlap) = T
        /\ DOMAIN overlap = 0..(K1 - 1)
        /\ \A k1 \in 0..(K1 - 1) :
              /\ DOMAIN overlap[k1] = 0..(K2 - 1)
              /\ \A k2 \in 0..(K2 - 1) :
                    overlap[k1][k2] =
                        Cardinality({t \in 1..T : z1[t] = k1 /\ z2[t] = k2})

\* a call with K1 supplied above max+1, K2 defaulted, on arrays of full length
\* with both labels present has returned
C3_Witness ==
    /\ pc = "overlap"
    /\ T = MaxT
    /\ K1arg # {} /\ K2arg = {}
    /\ K1 > ArrayMax(z1) + 1
    /\ InRange(z1, K1) /\ InRange(z2, K2)
    /\ Cardinality(Range(z1)) > 1 /\ Cardinality(Range(z2)) > 1
    /\ z1 # z2

\* C9 as stated: with explicit K1, K2 each >= the largest label of its array,
\* the result is a K1 x K2 matrix whose entries sum to T.
C9_SumWithBoundsAtLeastMax ==
    (OverlapReturned /\ K1arg # {} /\ K2arg # {}
        /\ KValue(K1arg) >= ArrayMax(z1) /\ KValue(K2arg) >= ArrayMax(z2)) =>
        /\ shape = <<KValue(K1arg), KValue(K2arg)>>
        /\ MatrixSum(overlap) = T

\* C9 amended: with explicit K1, K2 each strictly greater than the largest
\* label of its array (K >= max + 1), the result is a K1 x K2 matrix whose
\* entries sum to T.
C9_SumWithBoundsAboveMax ==
    (OverlapReturned /\ K1arg # {} /\ K2arg # {}
        /\ KValue(K1arg) > ArrayMax(z1) /\ KValue(K2arg) > ArrayMax(z2)) =>
        /\ shape = <<KValue(K1arg), KValue(K2arg)>>
        /\ DOMAIN overlap = 0..(KValue(K1arg) - 1)
        /\ \A k1 \in DOMAIN overlap : DOMAIN overlap[k1] = 0..(KValue(K2arg) - 1)
        /\ MatrixSum(overlap) = T

\* both bounds supplied, each leaving at least one label that never occurs
C9_Witness ==
    /\ pc = "overlap"
    /\ K1arg # {} /\ K2arg # {}
    /\ KValue(K1arg) > ArrayMax(z1) + 1
    /\ KValue(K2arg) > ArrayMax(z2) + 1
    /\ T = MaxT
    /\ MatrixSum(overlap) = MaxT

\* C1: whenever find_permutation returns, the result has length K2 and every
\* index of 0..K2-1 appears in it exactly once, for K1 = K2 and for K1 < K2.
C1_PermutationOfRange ==
    pc = "done" =>
        /\ DOMAIN perm = 0..(K2 - 1)
        /\ \A c \in 0..(K2 - 1) : Cardinality({i \in DOMAIN perm : perm[i] = c}) = 1

\* a padded result: at least two columns were left unmatched
C1_Witness ==
    /\ pc = "done"
    /\ K2 - K1 >= 2
    /\ DOMAIN perm = 0..(K2 - 1)

\* C2: the returned matching maximizes total overlap: the sum over the rows
\* k1 of overlap[k1][perm[k1]] is at least that of every other one-to-one
\* assignment of the K1 rows to distinct columns of 0..K2-1.
C2_MaximumTotalOverlap ==
    pc = "done" =>
        LET matched == ArraySum([k \in 0..(K1 - 1) |-> overlap[k][perm[k]]], K1)
        IN \A f \in Assignments(K1, K2) :
               matched >= ArraySum([k \in 0..(K1 - 1) |-> overlap[k][f[k]]], K1)

\* a result on a matrix where taking the largest entry of row 0 first is not
\* optimal: overlap = [[1, 1], [1, 0]], and a third column is padded
C2_Witness ==
    /\ pc = "done"
    /\ K1 = 2 /\ K2 = 3
    /\ overlap[0][0] = 1 /\ overlap[0][1] = 1 /\ overlap[1][0] = 1 /\ overlap[1][1] = 0
    /\ perm[0] = 1 /\ perm[1] = 0

\* the labels of 0..K-1 that never occur in z
Absent(z, K) == (0..(K - 1)) \ Range(z)

\* C4 as stated: for identical arrays with K1 = K2 = K (defaulted or supplied,
\* also with K larger than the number of labels that occur) the result is the
\* identity permutation.
C4_IdentityForIdenticalArrays ==
    (pc = "done" /\ z1 = z2 /\ K1 = K2) => perm = Arange(K1)

\* C4 amended: for identical arrays with K1 = K2 = K the result is the
\* identity permutation whenever at most one label of 0..K-1 never occurs in
\* the array.
C4_IdentityWhenAtMostOneAbsent ==
    (pc = "done" /\ z1 = z2 /\ K1 = K2 /\ Cardinality(Absent(z1, K1)) <= 1) =>
        perm = Arange(K1)

\* identical arrays, K supplied one above the labels that occur
C4_Witness ==
    /\ pc = "done"
    /\ z1 = z2 /\ K1 = K2
    /\ K1arg # {} /\ K2arg # {}
    /\ K1 = ArrayMax(z1) + 2
    /\ Cardinality(Absent(z1, K1)) = 1
    /\ perm = Arange(K1)

\* C5: whenever the resulting K1 > K2, find_permutation ends in the assertion
\* fault of line 50: the solver is never invoked and no permutation is made.
C5_AssertionWhenMoreRowsThanColumns ==
    (OverlapReturned /\ K1 > K2) =>
        /\ pc \in {"overlap", "AssertionError50"}
        /\ (~ENABLED Next => pc = "AssertionError50")
        /\ solverCalls = 0
        /\ perm = <<>>

\* the assertion has fired on a call whose K1 came from the default
C5_Witness ==
    /\ pc = "AssertionError50"
    /\ K1arg = {}
    /\ K1 > K2

\* ------------------------------------------------- properties of the optimizer
\* the call has ended: it returned, or it raised
AdamEnded == adam.pc \in {"returned", "TypeError", "NameError"}

\* the iteration cap the caller supplied
Cap == CHOOSE n \in adam.num_iters_arg : TRUE

\* the loop was left by the break of the convergence check
StoppedEarly == adam.pc = "returned" /\ adam.iterations < Cap

\* C6: the optimizer takes the caller's iteration cap and always ends by
\* returning x, after at most that many iterations.
C6_ReturnsWithinCap ==
    (AdamEnded /\ adam.num_iters_arg # {}) =>
        /\ adam.pc = "returned"
        /\ adam.iterations <= Cap

\* C7: a supplied callback is invoked once per executed iteration, numIters
\* times or fewer if stopped early, with indices 0, 1, 2, ... and the x and g
\* of that iteration.
C7_CallbackOncePerIteration ==
    (AdamEnded /\ adam.callback /\ adam.num_iters_arg # {}) =>
        /\ Len(adam.callbackLog) = adam.iterations
        /\ (Len(adam.callbackLog) = Cap \/ StoppedEarly)
        /\ \A k \in 1..Len(adam.callbackLog) : adam.callbackLog[k].i = k - 1

\* C8: from x = 0 with the default options and a large iteration cap, the
\* optimizer returns an x within the tolerance of 5, before the cap is used up.
C8_QuadraticConverges ==
    (AdamEnded /\ adam.x0 = <<0>> /\ adam.num_iters_arg = {MaxIters}
        /\ adam.passing = "keyword") =>
        /\ adam.pc = "returned"
        /\ adam.x[1] - 5 * Unit <= TolDefault
        /\ 5 * Unit - adam.x[1] <= TolDefault
        /\ adam.iterations < Cap

\* C10: the loop stops at the first iteration whose step is below the
\* tolerance, with no gradient evaluation after it; if no iteration is, every
\* iteration up to the cap is executed.
C10_StopsAtFirstSmallStep ==
    (AdamEnded /\ adam.num_iters_arg # {}) =>
        /\ Len(adam.gradCalls) = adam.iterations
        /\ \A k \in 1..Len(adam.gradCalls) : adam.gradCalls[k] = k - 1
        /\ (StoppedEarly \/ adam.iterations = Cap)

====
